---- MODULE Spec2Model ----
(***************************************************************************)
(* The crawl engines of the repository as one state machine:               *)
(*   PoliteCrawler   (polite_crawler_enhanced.py)                          *)
(*   SecurityCrawler (security_crawler_enhanced.py, extends PoliteCrawler) *)
(*   IndustrialCrawler (crawler_app.py)                                    *)
(* One behaviour is one crawl run of one variant against one site.  The    *)
(* site is an input: what a page contains is chosen when the page is read, *)
(* every GET may fail, every write to disk may fail.                       *)
(***************************************************************************)
EXTENDS Integers, Sequences, FiniteSets, TLC

VARIABLES
    variant,          \* which crawler class runs: "polite", "security", "industrial"
    start_url,        \* self.start_url
    max_pages,        \* self.max_pages
    site,             \* "any": arbitrary pages; "example": the example.test scenario site
    site_rules,       \* paths the site's robots.txt disallows for the crawler's agent
    pc,               \* position of the run inside crawl()
    url_queue,        \* self.url_queue (deque)
    visited_urls,     \* self.visited_urls (set)
    pages_crawled,    \* stats.pages_crawled / stats['pages']
    progress_calls,   \* history: number of progress_callback(progress) calls
    urls_found,       \* stats.urls_found
    errors,           \* stats.errors: the url of each error record, in order
    err_count,        \* IndustrialCrawler stats['errors']
    results_pages,    \* results['pages'] / extracted_data: the url of each page record
    assets_downloaded,\* stats.assets_downloaded
    results_images,   \* results['assets']['images']: the url of each image stored
    files,            \* asset file names present in the images folder
    robots_parser,    \* the RobotFileParser object's flags
    robots_loaded,    \* history: did the last check_robots_txt read a robots.txt: "none" (not run), "yes", "no"
    current_url,      \* the URL dequeued by the running loop iteration
    target,           \* url argument of the running download_with_retry call
    owner,            \* who called download_with_retry: "page", "security", "asset"
    attempt,          \* loop variable of download_with_retry
    call_log,         \* outcome of each GET of the download_with_retry call, until its caller moves on
    call_sleeps,      \* time.sleep(1) calls of that download_with_retry call
    end_time,         \* stats.end_time is set
    saved,            \* number of save_results() calls
    dequeued,         \* history: every URL popped from the queue and handled, in order
    enqueued,         \* history: every URL appended to the queue, in order
    fetched,          \* history: every URL a GET was issued for by download_with_retry / session.get
    skipped,          \* history: URLs process_page skipped because can_fetch was false
    page_ok,          \* history: number of page downloads that returned a response
    retry_ok,         \* history: page URLs whose download failed twice, then succeeded
    retry_failed,     \* history: page URLs whose download failed on every attempt
    fetches_since_delay,\* history: page fetches begun since the last rate-limit sleep (2 = two or more)
    summary,          \* what stats.to_dict() returned to save_results: << >> before the call, << dict >> after
    total_bytes,      \* stats.total_bytes
    security_issues,  \* self.security_issues: per severity the findings, in order (followed in AuditSpec)
    cms_detected,     \* self.cms_detected, None until a CMS is recognised (followed in AuditSpec)
    audited,          \* history: the url and response headers of every page check_security_headers saw
    detect_calls,     \* history: number of detect_cms calls
    last_html,        \* history: the CMS path patterns in the page of the last detect_cms call
    scheme,           \* the scheme of start_url, which the URL records leave out
    ssl_checks,       \* history: number of check_ssl_certificate calls
    sensitive_checks, \* history: number of check_sensitive_files calls
    reports,          \* history: number of generate_security_report calls
    robots_reads,     \* history: number of robots_parser.read() calls, each one GET of /robots.txt
    is_crawling,      \* IndustrialCrawlerGUI.is_crawling (followed in GuiSpec)
    loop_active,      \* IndustrialCrawlerGUI.loop_active (followed in GuiSpec)
    worker_pc,        \* position of the GUI's worker thread in _crawl_thread, "none" without a thread
    exiting,          \* a worker thread past "is_crawling = False" still has "loop_active = False" to run
    cycle_count,      \* cycle_count of the running _crawl_thread: the cycles it has started
    threads,          \* history: number of worker threads start_crawl has started
    stop_called,      \* history: stop_loop was called since the last accepted start_crawl
    page_html,        \* the document last given to DataExtractor.extract_all (followed in ExtractSpec)
    extracted         \* << >>, or the one dictionary extract_all returned for it

vars == << variant, start_url, max_pages, site, site_rules, pc, url_queue,
           visited_urls, pages_crawled, progress_calls, urls_found, errors, err_count,
           results_pages, assets_downloaded, results_images, files, robots_parser,
           robots_loaded, current_url, target, owner, attempt, call_log,
           call_sleeps, end_time, saved, dequeued, enqueued, fetched, skipped,
           page_ok, retry_ok, retry_failed,
           fetches_since_delay,
           summary,
           total_bytes, security_issues, cms_detected, audited, detect_calls,
           last_html, scheme, ssl_checks, sensitive_checks, reports, robots_reads,
           is_crawling, loop_active, worker_pc, exiting, cycle_count, threads, stop_called,
           page_html, extracted >>

----------------------------------------------------------------------------
(* Bounds of the model *)

\* largest page budget (max_pages) explored
MaxPages == 2
\* largest number of <a href> elements on one page
MaxLinks == 2
\* largest number of errors a summarised run records
MaxErrors == 11
\* largest number of crawl cycles one worker thread of the GUI starts
MaxCycles == 2
\* largest number of worker threads the GUI starts
MaxThreads == 2

(* Program constants *)
MAX_RETRIES == 3

----------------------------------------------------------------------------
(* URLs and hrefs.  A URL is scheme://host path #frag with the scheme left  *)
(* out (always https).  An href is what stands in an <a href="...">.        *)

Url(h, p, f) == [host |-> h, path |-> p, frag |-> f]

NoUrl == Url("", "", "")

SeedHost == "example.test"

\* the schemes of the start URLs explored; http only for the security
\* variant on the example site: the scheme decides nothing but whether
\* SecurityCrawler.crawl checks the certificate
Schemes == { "https", "http" }

\* the start URLs explored: with and without a fragment
Seeds == { Url(SeedHost, "/", ""), Url(SeedHost, "/", "top") }

Href(k, h, p, f) == [kind |-> k, host |-> h, path |-> p, frag |-> f]

HrefA      == Href("rel", "", "/a", "")              \* href="/a"
HrefAFrag  == Href("rel", "", "/a", "x")             \* href="/a#x"
HrefTop    == Href("frag", "", "", "top")            \* href="#top"
HrefOther  == Href("abs", "other.test", "/", "")     \* href="https://other.test/"
HrefMailto == Href("mailto", "", "mailto:x", "")     \* href="mailto:x"

Hrefs == { HrefA, HrefAFrag, HrefTop, HrefOther, HrefMailto }

\* all lists of at most n hrefs
RECURSIVE SeqsUpTo(_, _)
SeqsUpTo(S, n) ==
    IF n = 0 THEN { <<>> }
    ELSE LET shorter == SeqsUpTo(S, n - 1)
         IN  shorter \cup { Append(s, x) : s \in { t \in shorter : Len(t) = n - 1 }, x \in S }

LinkSeqs == SeqsUpTo(Hrefs, MaxLinks)

\* the src of the one <img> a page may carry ("" = the page has no <img>)
ImgSrcs == { "", "/i.png" }

\* the sizes in bytes of the asset files the site serves
AssetSizes == { 1, 2 }

\* robots.txt rulesets of the sites explored, as the set of paths they deny
RuleSets == { {}, {"/a", "/i.png"} }

\* the site of the end-to-end scenario: page 1 links to /a and to
\* https://other.test/, page /a links to nothing
ExampleLinks(url) ==
    IF url.path = "/" THEN << HrefA, HrefOther >> ELSE << >>

\* urllib.parse.urljoin(url, href)
urljoin(url, href) ==
    CASE href.kind = "abs"    -> Url(href.host, href.path, href.frag)
      [] href.kind = "rel"    -> Url(url.host, href.path, href.frag)
      [] href.kind = "frag"   -> Url(url.host, url.path, href.frag)
      [] href.kind = "mailto" -> Url("", href.path, "")

\* full_url.split('#')[0]
StripFragment(url) == [url EXCEPT !.frag = ""]

\* urlparse(url).netloc
netloc(url) == url.host

\* self.domain, set by the constructor from the start URL
domain == netloc(start_url)

\* os.path.basename(urlparse(url).path)
Basename(url) ==
    CASE url.path = "/i.png" -> "i.png"
      [] url.path = "/a"     -> "a"
      [] OTHER               -> ""

----------------------------------------------------------------------------
(* robots.txt: urllib.robotparser.RobotFileParser as PoliteCrawler uses it  *)

Variants == { "polite", "security", "industrial" }

\* how one load of /robots.txt can end
RobotsOutcomes == { "ok", "neterror", "parseerror", "http403", "http404", "http500" }

\* RobotFileParser() as constructed in PoliteCrawler.__init__
NewRobotsParser == [ disallow_all |-> FALSE, allow_all |-> FALSE, last_checked |-> FALSE ]

\* check_robots_txt: robots_parser.read() inside try/except Exception.
\* read() sets disallow_all on 401/403, allow_all on another 4xx, parses the
\* body (which stamps last_checked) on success, and changes nothing when the
\* request raises (network error), the body cannot be decoded, or on a 5xx.
check_robots_txt(parser, outcome) ==
    CASE outcome = "ok"      -> [parser EXCEPT !.last_checked = TRUE]
      [] outcome = "http403" -> [parser EXCEPT !.disallow_all = TRUE]
      [] outcome = "http404" -> [parser EXCEPT !.allow_all = TRUE]
      [] OTHER               -> parser

\* can_fetch: robots_parser.can_fetch("PoliteCrawler", url); the except branch
\* (return True) is taken only if that call raises, which it does not.
can_fetch(url) ==
    IF robots_parser.disallow_all THEN FALSE
    ELSE IF robots_parser.allow_all THEN TRUE
    ELSE IF ~robots_parser.last_checked THEN FALSE
    ELSE url.path \notin site_rules

----------------------------------------------------------------------------
(* SecurityCrawler: findings *)

\* the keys of self.security_issues
Severities == { "critical", "high", "medium", "low", "info" }

\* self.cms_detected = None
None == "None"

----------------------------------------------------------------------------
(* Construction *)

\* PoliteCrawler.__init__ / SecurityCrawler.__init__ / IndustrialCrawler.__init__
Init ==
    /\ variant \in Variants
    /\ site \in { "any", "example" }
    /\ start_url \in IF site = "example" THEN { Url(SeedHost, "/", "") } ELSE Seeds
    /\ max_pages \in IF site = "example" THEN { 2 } ELSE 0 .. MaxPages
    /\ site_rules \in IF site = "example" \/ variant = "industrial" THEN { {} } ELSE RuleSets
    /\ pc = IF variant = "industrial" THEN "loop" ELSE "idle"
    /\ url_queue = IF variant = "industrial" THEN << start_url >> ELSE << >>
    /\ enqueued = url_queue
    /\ visited_urls = {}
    /\ pages_crawled = 0
    /\ progress_calls = 0
    /\ urls_found = 0
    /\ errors = << >>
    /\ err_count = 0
    /\ results_pages = << >>
    /\ assets_downloaded = 0
    /\ results_images = << >>
    /\ files = {}
    /\ robots_parser = NewRobotsParser
    /\ robots_loaded = "none"
    /\ current_url = NoUrl
    /\ target = NoUrl
    /\ owner = "none"
    /\ attempt = 0
    /\ call_log = << >>
    /\ call_sleeps = 0
    /\ end_time = FALSE
    /\ saved = 0
    /\ dequeued = << >>
    /\ fetched = {}
    /\ skipped = {}
    /\ page_ok = 0
    /\ retry_ok = {}
    /\ retry_failed = {}
    /\ fetches_since_delay = 0
    /\ summary = << >>
    /\ total_bytes = 0
    /\ security_issues = [ severity \in Severities |-> << >> ]
    /\ cms_detected = None
    /\ audited = << >>
    /\ detect_calls = 0
    /\ last_html = {}
    /\ scheme \in IF variant = "security" /\ site = "example" THEN Schemes ELSE { "https" }
    /\ ssl_checks = 0
    /\ sensitive_checks = 0
    /\ reports = 0
    /\ robots_reads = 0
    /\ is_crawling = FALSE
    /\ loop_active = FALSE
    /\ worker_pc = "none"
    /\ exiting = FALSE
    /\ cycle_count = 0
    /\ threads = 0
    /\ stop_called = FALSE
    /\ page_html = << >>
    /\ extracted = << >>

extractVars == << page_html, extracted >>
auditVars  == << security_issues, cms_detected, audited, detect_calls, last_html >>
siteVars   == << variant, start_url, scheme, max_pages, site, site_rules >>
robotsVars == << robots_parser, robots_loaded, robots_reads >>
guiVars    == << is_crawling, loop_active, worker_pc, exiting, cycle_count, threads,
                 stop_called >>
checkVars  == << ssl_checks, sensitive_checks, reports >>
callVars   == << target, owner, attempt, call_log, call_sleeps >>
statVars   == << pages_crawled, progress_calls, urls_found, errors, err_count, results_pages,
                 assets_downloaded, results_images, files >>
retryVars  == << retry_ok, retry_failed >>
histVars   == << dequeued, enqueued, fetched, skipped, page_ok, retryVars >>

----------------------------------------------------------------------------
(* PoliteCrawler.crawl and SecurityCrawler.crawl *)

\* mutant of CertificateCheckDue: the certificate is checked for every seed
CertificateCheckAlways == TRUE

\* SecurityCrawler.crawl: "if self.start_url.startswith('https://')"
CertificateCheckDue == scheme = "https"

\* SecurityCrawler.crawl up to its call of super().crawl(): start_time,
\* setup_folders, check_robots_txt, then the one-time pre-crawl checks:
\* check_ssl_certificate for an https seed, check_sensitive_files
SecurityCrawl ==
    /\ variant = "security"
    /\ pc = "idle"
    /\ \E outcome \in RobotsOutcomes :
          /\ robots_parser' = check_robots_txt(robots_parser, outcome)
          /\ robots_loaded' = IF outcome = "ok" THEN "yes" ELSE "no"
    /\ robots_reads' = robots_reads + 1
    /\ ssl_checks' = IF CertificateCheckDue THEN ssl_checks + 1 ELSE ssl_checks
    /\ sensitive_checks' = sensitive_checks + 1
    /\ pc' = "super"
    /\ UNCHANGED << siteVars, extractVars, guiVars, auditVars, reports, total_bytes,
                    summary, fetches_since_delay, url_queue, visited_urls, statVars,
                    current_url, callVars, end_time, saved, histVars >>

\* PoliteCrawler.crawl up to the loop: start_time, setup_folders,
\* check_robots_txt, then the seed is appended and marked visited
PoliteCrawl ==
    /\ \/ variant = "polite" /\ pc = "idle"
       \/ variant = "security" /\ pc = "super"
    /\ \E outcome \in RobotsOutcomes :
          /\ robots_parser' = check_robots_txt(robots_parser, outcome)
          /\ robots_loaded' = IF outcome = "ok" THEN "yes" ELSE "no"
    /\ robots_reads' = robots_reads + 1
    /\ url_queue' = Append(url_queue, start_url)
    /\ enqueued' = Append(enqueued, start_url)
    /\ visited_urls' = visited_urls \cup { start_url }
    /\ pc' = "loop"
    /\ UNCHANGED << siteVars, extractVars, guiVars, auditVars, checkVars, total_bytes,
                    summary, fetches_since_delay, retryVars, statVars, current_url,
                    callVars, end_time, saved, dequeued, fetched, skipped, page_ok >>

\* the caller of download_with_retry has moved on with what the call returned:
\* the locals of the call are gone
EndCall ==
    /\ target' = NoUrl
    /\ owner' = "none"
    /\ attempt' = 0
    /\ call_log' = << >>
    /\ call_sleeps' = 0

\* "if pages_crawled > 0: time.sleep(self.delay)" at the head of a loop
\* iteration (all three crawl loops): the count after it
RateLimit == IF pages_crawled > 0 THEN 0 ELSE fetches_since_delay

\* a page fetch begins: the count after it, saturating at 2
PageFetch == IF fetches_since_delay >= 1 THEN 2 ELSE fetches_since_delay + 1

\* the while condition of the crawl loop (both crawlers)
LoopCondition == url_queue # << >> /\ pages_crawled < max_pages

\* mutant of popleft: the newest entry is taken, as list.pop() does
pop(queue) == [url |-> queue[Len(queue)], rest |-> SubSeq(queue, 1, Len(queue) - 1)]

\* mutant of popleft: the oldest entry is read and stays in the queue
peek(queue) == [url |-> Head(queue), rest |-> queue]

\* deque.popleft(): the oldest entry and the queue without it
popleft(queue) == [url |-> Head(queue), rest |-> Tail(queue)]

\* one loop iteration up to the call of process_page: rate-limit sleep, popleft
PoliteDequeue ==
    /\ variant \in { "polite", "security" }
    /\ pc = "loop"
    /\ LoopCondition
    /\ current_url' = popleft(url_queue).url
    /\ url_queue' = popleft(url_queue).rest
    /\ dequeued' = Append(dequeued, popleft(url_queue).url)
    /\ pc' = "process"
    /\ fetches_since_delay' = RateLimit
    /\ EndCall
    /\ UNCHANGED << siteVars, extractVars, guiVars, auditVars, checkVars, total_bytes,
                    summary, retryVars, visited_urls, statVars, robotsVars, end_time,
                    saved, enqueued, fetched, skipped, page_ok >>

\* mutant of ErrorsListed: the whole error list is reported
ErrorsListedAll(errs) == errs

\* self.errors[:10]
ErrorsListed(errs) == SubSeq(errs, 1, IF Len(errs) < 10 THEN Len(errs) ELSE 10)

\* mutant of round_2: the digits after the second decimal are cut off
round_2_down(n, d) == (100 * n) \div d

\* round(n / d, 2) for a power of two d, in hundredths: n / d is then exact
\* as a float, and round() gives the nearest hundredth, the even one of two
\* equally near
round_2(n, d) ==
    LET q == (100 * n) \div d
        r == (100 * n) % d
    IN  IF 2 * r < d THEN q
        ELSE IF 2 * r > d THEN q + 1
        ELSE IF q % 2 = 0 THEN q ELSE q + 1

\* CrawlerStats.to_dict (the counters and the errors; total_mb in hundredths)
to_dict ==
    [ pages_crawled     |-> pages_crawled,
      assets_downloaded |-> assets_downloaded,
      total_bytes       |-> total_bytes,
      total_mb          |-> round_2(total_bytes, 1024 * 1024),
      urls_found        |-> urls_found,
      errors_count      |-> Len(errors),
      errors            |-> ErrorsListed(errors) ]

\* mutant of PoliteFinish: the results are saved only when a page was recorded
PoliteFinishSkipsEmpty ==
    /\ variant \in { "polite", "security" }
    /\ pc = "loop"
    /\ ~LoopCondition
    /\ end_time' = TRUE
    /\ saved' = IF results_pages = << >> THEN saved ELSE saved + 1
    /\ summary' = << to_dict >>
    /\ pc' = IF variant = "security" THEN "report" ELSE "done"
    /\ EndCall
    /\ UNCHANGED << siteVars, extractVars, guiVars, auditVars, checkVars, total_bytes,
                    fetches_since_delay, url_queue, visited_urls, statVars, robotsVars,
                    current_url, histVars >>

\* after the loop: end_time, save_results (which stores stats.to_dict()),
\* print_summary
PoliteFinish ==
    /\ variant \in { "polite", "security" }
    /\ pc = "loop"
    /\ ~LoopCondition
    /\ end_time' = TRUE
    /\ saved' = saved + 1
    /\ summary' = << to_dict >>
    /\ pc' = IF variant = "security" THEN "report" ELSE "done"
    /\ EndCall
    /\ UNCHANGED << siteVars, extractVars, guiVars, auditVars, checkVars, total_bytes,
                    fetches_since_delay, url_queue, visited_urls, statVars, robotsVars,
                    current_url, histVars >>

\* SecurityCrawler.crawl after super().crawl() returned
generate_security_report ==
    /\ pc = "report"
    /\ reports' = reports + 1
    /\ pc' = "done"
    /\ UNCHANGED << siteVars, extractVars, guiVars, auditVars, ssl_checks,
                    sensitive_checks, total_bytes, summary, fetches_since_delay,
                    url_queue, visited_urls, statVars, robotsVars, current_url,
                    callVars, end_time, saved, histVars >>

----------------------------------------------------------------------------
(* What a page of the site holds, read when the page is processed *)

\* the lists of <a href> the page at url may hold
PageLinks(url) == IF site = "example" THEN { ExampleLinks(url) } ELSE LinkSeqs

\* the src of the page's <img>, "" when it has none
PageImgs(url) == IF site = "example" THEN { "" } ELSE ImgSrcs

\* whether the page may hold an inline <svg>
PageSvgs(url) == IF site = "example" THEN { FALSE } ELSE BOOLEAN

----------------------------------------------------------------------------
(* PoliteCrawler.process_page and the tail of the loop iteration *)

\* mutant of SameDomain: the host of the link is not compared with the domain
SameDomainAnyHost(full_url, href) == href.kind # "mailto"

\* the same-domain test of the link loop
SameDomain(full_url, href) == netloc(full_url) = domain /\ href.kind # "mailto"

\* the link loop of process_page: the fragment-stripped same-domain targets
\* not yet visited, in document order, duplicates kept
RECURSIVE InternalLinks(_, _)
InternalLinks(url, hrefs) ==
    IF hrefs = << >> THEN << >>
    ELSE LET full_url  == urljoin(url, Head(hrefs))
             clean_url == StripFragment(full_url)
             rest      == InternalLinks(url, Tail(hrefs))
         IN  IF SameDomain(full_url, Head(hrefs)) /\ clean_url \notin visited_urls
             THEN << clean_url >> \o rest
             ELSE rest

\* mutant of EnqueueNew: the appended link is not added to the visited set
RECURSIVE EnqueueNewUnmarked(_, _, _, _)
EnqueueNewUnmarked(links, q, v, e) ==
    IF links = << >> THEN [ q |-> q, v |-> v, e |-> e ]
    ELSE IF Head(links) \notin v
         THEN EnqueueNewUnmarked(Tail(links), Append(q, Head(links)), v,
                                 Append(e, Head(links)))
         ELSE EnqueueNewUnmarked(Tail(links), q, v, e)

\* "for link in found_links: if link not in visited_urls: add, append",
\* from queue q, visited set v and the list e of everything enqueued so far
RECURSIVE EnqueueNew(_, _, _, _)
EnqueueNew(links, q, v, e) ==
    IF links = << >> THEN [ q |-> q, v |-> v, e |-> e ]
    ELSE IF Head(links) \notin v
         THEN EnqueueNew(Tail(links), Append(q, Head(links)), v \cup { Head(links) },
                         Append(e, Head(links)))
         ELSE EnqueueNew(Tail(links), q, v, e)

\* the loop iteration after process_page returned found_links:
\* pages_crawled += 1, progress callback, new links enqueued
Return(found_links) ==
    LET r == EnqueueNew(found_links, url_queue, visited_urls, enqueued)
    IN  /\ pages_crawled' = pages_crawled + 1
        /\ progress_calls' = progress_calls + 1
        /\ url_queue' = r.q
        /\ visited_urls' = r.v
        /\ enqueued' = r.e
        /\ pc' = "loop"

\* process_page: can_fetch(url) is false, the page is skipped
RobotsSkip ==
    /\ pc = "process"
    /\ ~can_fetch(current_url)
    /\ skipped' = skipped \cup { current_url }
    /\ Return(<< >>)
    /\ UNCHANGED << siteVars, extractVars, guiVars, auditVars, checkVars, total_bytes,
                    summary, fetches_since_delay, retryVars, urls_found, errors,
                    err_count, results_pages, assets_downloaded, results_images, files,
                    robotsVars, current_url, callVars, end_time, saved, dequeued,
                    fetched, page_ok >>

\* process_page: can_fetch(url) is true, download_with_retry(url) is called
\* (by SecurityCrawler.process_page first in the security variant)
BeginDownload ==
    /\ pc = "process"
    /\ can_fetch(current_url)
    /\ target' = current_url
    /\ owner' = IF variant = "security" THEN "security" ELSE "page"
    /\ attempt' = 0
    /\ call_log' = << >>
    /\ call_sleeps' = 0
    /\ fetches_since_delay' = PageFetch
    /\ pc' = "get"
    /\ UNCHANGED << siteVars, extractVars, guiVars, auditVars, checkVars, total_bytes,
                    summary, url_queue, visited_urls, statVars, robotsVars, current_url,
                    end_time, saved, histVars >>

\* mutant of LastAttempt: the give-up test is off by one
LastAttemptOffByOne == attempt = MAX_RETRIES

\* download_with_retry: "if attempt == MAX_RETRIES - 1"
LastAttempt == attempt = MAX_RETRIES - 1

\* download_with_retry: a GET that succeeds; the response is returned
GetOk ==
    /\ pc = "get"
    /\ attempt < MAX_RETRIES
    /\ fetched' = fetched \cup { target }
    /\ call_log' = Append(call_log, TRUE)
    /\ page_ok' = IF owner = "asset" THEN page_ok ELSE page_ok + 1
    /\ pc' = CASE owner = "security" -> "sec_checks"
               [] owner = "page"     -> "parse"
               [] owner = "asset"    -> "asset_write"
    /\ retry_ok' = IF owner # "asset" /\ call_log = << FALSE, FALSE >>
                   THEN retry_ok \cup { target } ELSE retry_ok
    /\ UNCHANGED retry_failed
    /\ UNCHANGED << siteVars, extractVars, guiVars, auditVars, checkVars, total_bytes,
                    summary, fetches_since_delay, url_queue, visited_urls, statVars,
                    robotsVars, current_url, target, owner, attempt, call_sleeps,
                    end_time, saved, dequeued, enqueued, skipped >>

\* download_with_retry: a GET that fails before the last attempt; sleep(1)
GetRetry ==
    /\ pc = "get"
    /\ attempt < MAX_RETRIES
    /\ ~LastAttempt
    /\ fetched' = fetched \cup { target }
    /\ call_log' = Append(call_log, FALSE)
    /\ call_sleeps' = call_sleeps + 1
    /\ attempt' = attempt + 1
    /\ UNCHANGED << siteVars, extractVars, guiVars, auditVars, checkVars, total_bytes,
                    summary, fetches_since_delay, retryVars, pc, url_queue,
                    visited_urls, statVars, robotsVars, current_url, target, owner,
                    end_time, saved, dequeued, enqueued, skipped, page_ok >>

\* download_with_retry: the last GET fails; the error is recorded and None is
\* returned.  process_page then returns [], download_asset returns None.
GetGiveUp ==
    /\ pc = "get"
    /\ attempt < MAX_RETRIES
    /\ LastAttempt
    /\ fetched' = fetched \cup { target }
    /\ call_log' = Append(call_log, FALSE)
    /\ errors' = Append(errors, target)
    /\ IF owner = "asset"
       THEN /\ pc' = "svg"
            /\ UNCHANGED << pages_crawled, progress_calls, url_queue, visited_urls,
                            enqueued >>
       ELSE Return(<< >>)
    /\ retry_failed' = IF owner # "asset" THEN retry_failed \cup { target } ELSE retry_failed
    /\ UNCHANGED retry_ok
    /\ UNCHANGED << siteVars, extractVars, guiVars, auditVars, checkVars, total_bytes,
                    summary, fetches_since_delay, urls_found, err_count, results_pages,
                    assets_downloaded, results_images, files, robotsVars, current_url,
                    target, owner, attempt, call_sleeps, end_time, saved, dequeued,
                    skipped, page_ok >>

\* SecurityCrawler.process_page after its own download: the security checks,
\* then super().process_page(url), which downloads the page again
SecurityChecks ==
    /\ pc = "sec_checks"
    /\ owner' = "page"
    /\ attempt' = 0
    /\ call_log' = << >>
    /\ call_sleeps' = 0
    /\ fetches_since_delay' = PageFetch
    /\ pc' = "get"
    /\ UNCHANGED << siteVars, extractVars, guiVars, auditVars, checkVars, total_bytes,
                    summary, url_queue, visited_urls, statVars, robotsVars, current_url,
                    target, end_time, saved, histVars >>

\* SecurityCrawler.process_page: parsing or a security check raises inside the
\* try; the error is recorded and [] returned
SecurityChecksRaise ==
    /\ pc = "sec_checks"
    /\ errors' = Append(errors, current_url)
    /\ Return(<< >>)
    /\ EndCall
    /\ UNCHANGED << siteVars, extractVars, guiVars, auditVars, checkVars, total_bytes,
                    summary, fetches_since_delay, retryVars, urls_found, err_count,
                    results_pages, assets_downloaded, results_images, files, robotsVars,
                    current_url, end_time, saved, dequeued, fetched, skipped, page_ok >>

\* process_page: BeautifulSoup(...) raises inside the try; the error is
\* recorded and [] returned
ParseError ==
    /\ pc = "parse"
    /\ errors' = Append(errors, current_url)
    /\ Return(<< >>)
    /\ EndCall
    /\ UNCHANGED << siteVars, extractVars, guiVars, auditVars, checkVars, total_bytes,
                    summary, fetches_since_delay, retryVars, urls_found, err_count,
                    results_pages, assets_downloaded, results_images, files, robotsVars,
                    current_url, end_time, saved, dequeued, fetched, skipped, page_ok >>

\* process_page: writing the page's HTML file raises; nothing catches it
\* between here and the caller of crawl()
WriteFails ==
    /\ pc = "parse"
    /\ pc' = "crashed"
    /\ EndCall
    /\ UNCHANGED << siteVars, extractVars, guiVars, auditVars, checkVars, total_bytes,
                    summary, fetches_since_delay, url_queue, visited_urls, statVars,
                    robotsVars, current_url, end_time, saved, histVars >>

\* process_page: the page is parsed and its HTML file written
PageSaved ==
    /\ pc = "parse"
    /\ pc' = "images"
    /\ EndCall
    /\ UNCHANGED << siteVars, extractVars, guiVars, auditVars, checkVars, total_bytes,
                    summary, fetches_since_delay, url_queue, visited_urls, statVars,
                    robotsVars, current_url, end_time, saved, histVars >>

\* process_page, image loop: the page has no <img> (or only data: URIs)
NoImage ==
    /\ pc = "images"
    /\ "" \in PageImgs(current_url)
    /\ pc' = "svg"
    /\ UNCHANGED << siteVars, extractVars, guiVars, auditVars, checkVars, total_bytes,
                    summary, fetches_since_delay, url_queue, visited_urls, statVars,
                    robotsVars, current_url, callVars, end_time, saved, histVars >>

\* mutant of AssetExists: the asset found on disk is counted again
AssetExistsRecount ==
    /\ pc = "images"
    /\ \E src \in PageImgs(current_url) \ { "" } :
          LET full_url == urljoin(current_url, Href("rel", "", src, ""))
          IN  /\ Basename(full_url) # ""
              /\ Basename(full_url) \in files
              /\ results_images' = Append(results_images, full_url)
    /\ assets_downloaded' = assets_downloaded + 1
    /\ \E file_size \in AssetSizes : total_bytes' = total_bytes + file_size
    /\ pc' = "svg"
    /\ UNCHANGED << siteVars, extractVars, guiVars, auditVars, checkVars, summary,
                    fetches_since_delay, url_queue, visited_urls, pages_crawled,
                    progress_calls, urls_found, errors, err_count, results_pages, files,
                    robotsVars, current_url, callVars, end_time, saved, histVars >>

\* process_page, image loop, download_asset: the file already exists on disk,
\* its name is returned without a download
AssetExists ==
    /\ pc = "images"
    /\ \E src \in PageImgs(current_url) \ { "" } :
          LET full_url == urljoin(current_url, Href("rel", "", src, ""))
          IN  /\ Basename(full_url) # ""
              /\ Basename(full_url) \in files
              /\ results_images' = Append(results_images, full_url)
    /\ pc' = "svg"
    /\ UNCHANGED << siteVars, extractVars, guiVars, auditVars, checkVars, total_bytes,
                    summary, fetches_since_delay, url_queue, visited_urls,
                    pages_crawled, progress_calls, urls_found, errors, err_count,
                    results_pages, assets_downloaded, files, robotsVars, current_url,
                    callVars, end_time, saved, histVars >>

\* process_page, image loop, download_asset: download_with_retry(url, stream=True)
AssetDownload ==
    /\ pc = "images"
    /\ \E src \in PageImgs(current_url) \ { "" } :
          LET full_url == urljoin(current_url, Href("rel", "", src, ""))
          IN  /\ Basename(full_url) # ""
              /\ Basename(full_url) \notin files
              /\ target' = full_url
    /\ owner' = "asset"
    /\ attempt' = 0
    /\ call_log' = << >>
    /\ call_sleeps' = 0
    /\ pc' = "get"
    /\ UNCHANGED << siteVars, extractVars, guiVars, auditVars, checkVars, total_bytes,
                    summary, fetches_since_delay, url_queue, visited_urls, statVars,
                    robotsVars, current_url, end_time, saved, histVars >>

\* download_asset: the response is written to the file and counted
AssetWritten ==
    /\ pc = "asset_write"
    /\ files' = files \cup { Basename(target) }
    /\ assets_downloaded' = assets_downloaded + 1
    /\ \E file_size \in AssetSizes : total_bytes' = total_bytes + file_size
    /\ results_images' = Append(results_images, target)
    /\ pc' = "svg"
    /\ EndCall
    /\ UNCHANGED << siteVars, extractVars, guiVars, auditVars, checkVars, summary,
                    fetches_since_delay, url_queue, visited_urls, pages_crawled,
                    progress_calls, urls_found, errors, err_count, results_pages,
                    robotsVars, current_url, end_time, saved, histVars >>

\* download_asset: opening or writing the file raises; the except branch
\* records the error and returns None.  The file may have been created.
AssetWriteFails ==
    /\ pc = "asset_write"
    /\ errors' = Append(errors, target)
    /\ files' \in { files, files \cup { Basename(target) } }
    /\ pc' = "svg"
    /\ EndCall
    /\ UNCHANGED << siteVars, extractVars, guiVars, auditVars, checkVars, total_bytes,
                    summary, fetches_since_delay, url_queue, visited_urls,
                    pages_crawled, progress_calls, urls_found, err_count, results_pages,
                    assets_downloaded, results_images, robotsVars, current_url,
                    end_time, saved, histVars >>

\* process_page, inline SVG loop: the page holds an <svg>; self.folders["svg"]
\* raises KeyError (setup_folders creates the key 'svgs'), nothing catches it
SvgCrash ==
    /\ pc = "svg"
    /\ TRUE \in PageSvgs(current_url)
    /\ pc' = "crashed"
    /\ EndCall
    /\ UNCHANGED << siteVars, extractVars, guiVars, auditVars, checkVars, total_bytes,
                    summary, fetches_since_delay, url_queue, visited_urls, statVars,
                    robotsVars, current_url, end_time, saved, histVars >>

\* process_page from results['pages'].append to its return, and the rest of
\* the loop iteration
FinishPage ==
    /\ pc = "svg"
    /\ FALSE \in PageSvgs(current_url)
    /\ results_pages' = Append(results_pages, current_url)
    /\ \E hrefs \in PageLinks(current_url) :
          LET internal_links == InternalLinks(current_url, hrefs)
          IN  /\ urls_found' = urls_found + Len(internal_links)
              /\ Return(internal_links)
    /\ EndCall
    /\ UNCHANGED << siteVars, extractVars, guiVars, auditVars, checkVars, total_bytes,
                    summary, fetches_since_delay, retryVars, errors, err_count,
                    assets_downloaded, results_images, files, robotsVars, current_url,
                    end_time, saved, dequeued, fetched, skipped, page_ok >>

----------------------------------------------------------------------------
(* IndustrialCrawler.crawl *)

\* loop head: sleep, popleft, "if url in self.visited_urls: continue",
\* else the url is marked visited
IndustrialDequeue ==
    /\ variant = "industrial"
    /\ pc = "loop"
    /\ LoopCondition
    /\ fetches_since_delay' = RateLimit
    /\ url_queue' = popleft(url_queue).rest
    /\ IF popleft(url_queue).url \in visited_urls
       THEN UNCHANGED << pc, visited_urls, current_url, dequeued >>
       ELSE /\ visited_urls' = visited_urls \cup { popleft(url_queue).url }
            /\ current_url' = popleft(url_queue).url
            /\ dequeued' = Append(dequeued, popleft(url_queue).url)
            /\ pc' = "ind_get"
    /\ UNCHANGED << siteVars, extractVars, guiVars, auditVars, checkVars, total_bytes,
                    summary, retryVars, statVars, robotsVars, callVars, end_time, saved,
                    enqueued, fetched, skipped, page_ok >>

\* the filter of the link loop of crawl()
IndustrialWanted(full_url, href) ==
    /\ href.kind \notin { "frag", "mailto" }
    /\ netloc(full_url) = domain

\* "Find more links": the urls appended for the page's hrefs, in order;
\* visited_urls does not change during the loop
RECURSIVE IndustrialLinks(_, _)
IndustrialLinks(url, hrefs) ==
    IF hrefs = << >> THEN << >>
    ELSE LET full_url == urljoin(url, Head(hrefs))
             rest     == IndustrialLinks(url, Tail(hrefs))
         IN  IF IndustrialWanted(full_url, Head(hrefs)) /\ full_url \notin visited_urls
             THEN << full_url >> \o rest
             ELSE rest

\* the try block runs through: GET, extract_all, stats['pages'] += 1,
\* progress callback, links appended
IndustrialPage ==
    /\ pc = "ind_get"
    /\ fetched' = fetched \cup { current_url }
    /\ fetches_since_delay' = PageFetch
    /\ page_ok' = page_ok + 1
    /\ results_pages' = Append(results_pages, current_url)
    /\ pages_crawled' = pages_crawled + 1
    /\ progress_calls' = progress_calls + 1
    /\ \E hrefs \in PageLinks(current_url) :
          LET found == IndustrialLinks(current_url, hrefs)
          IN  /\ url_queue' = url_queue \o found
              /\ enqueued' = enqueued \o found
    /\ pc' = "loop"
    /\ UNCHANGED << siteVars, extractVars, guiVars, auditVars, checkVars, total_bytes,
                    summary, retryVars, visited_urls, urls_found, errors, err_count,
                    assets_downloaded, results_images, files, robotsVars, current_url,
                    callVars, end_time, saved, dequeued, skipped >>

\* the GET raises (transport error, or raise_for_status on an error status)
IndustrialGetFails ==
    /\ pc = "ind_get"
    /\ fetched' = fetched \cup { current_url }
    /\ fetches_since_delay' = PageFetch
    /\ err_count' = err_count + 1
    /\ pc' = "loop"
    /\ UNCHANGED << siteVars, extractVars, guiVars, auditVars, checkVars, total_bytes,
                    summary, retryVars, url_queue, visited_urls, pages_crawled,
                    progress_calls, urls_found, errors, results_pages,
                    assets_downloaded, results_images, files, robotsVars, current_url,
                    callVars, end_time, saved, dequeued, enqueued, skipped, page_ok >>

\* the GET succeeds and extract_all raises (e.g. a <title> without a string)
IndustrialExtractFails ==
    /\ pc = "ind_get"
    /\ fetched' = fetched \cup { current_url }
    /\ fetches_since_delay' = PageFetch
    /\ page_ok' = page_ok + 1
    /\ err_count' = err_count + 1
    /\ pc' = "loop"
    /\ UNCHANGED << siteVars, extractVars, guiVars, auditVars, checkVars, total_bytes,
                    summary, retryVars, url_queue, visited_urls, pages_crawled,
                    progress_calls, urls_found, errors, results_pages,
                    assets_downloaded, results_images, files, robotsVars, current_url,
                    callVars, end_time, saved, dequeued, enqueued, skipped >>

\* the page is recorded (extracted_data.append, stats['pages'] += 1) and the
\* progress callback raises: the except branch counts an error for the url
IndustrialCallbackRaises ==
    /\ pc = "ind_get"
    /\ fetched' = fetched \cup { current_url }
    /\ fetches_since_delay' = PageFetch
    /\ page_ok' = page_ok + 1
    /\ results_pages' = Append(results_pages, current_url)
    /\ pages_crawled' = pages_crawled + 1
    /\ progress_calls' = progress_calls + 1
    /\ err_count' = err_count + 1
    /\ pc' = "loop"
    /\ UNCHANGED << siteVars, extractVars, guiVars, auditVars, checkVars, total_bytes,
                    summary, retryVars, url_queue, visited_urls, urls_found, errors,
                    assets_downloaded, results_images, files, robotsVars, current_url,
                    callVars, end_time, saved, dequeued, enqueued, skipped >>

\* the page is recorded, the callback returns and the link loop raises
\* (urljoin or urlparse on a malformed href) after it appended some of the
\* page's links: the except branch counts an error for the url
IndustrialLinksRaise ==
    /\ pc = "ind_get"
    /\ fetched' = fetched \cup { current_url }
    /\ fetches_since_delay' = PageFetch
    /\ page_ok' = page_ok + 1
    /\ results_pages' = Append(results_pages, current_url)
    /\ pages_crawled' = pages_crawled + 1
    /\ progress_calls' = progress_calls + 1
    /\ err_count' = err_count + 1
    /\ \E hrefs \in PageLinks(current_url) :
          LET found == IndustrialLinks(current_url, hrefs)
          IN  \E k \in 0 .. Len(found) :
                 /\ url_queue' = url_queue \o SubSeq(found, 1, k)
                 /\ enqueued' = enqueued \o SubSeq(found, 1, k)
    /\ pc' = "loop"
    /\ UNCHANGED << siteVars, extractVars, guiVars, auditVars, checkVars, total_bytes,
                    summary, retryVars, visited_urls, urls_found, errors,
                    assets_downloaded, results_images, files, robotsVars, current_url,
                    callVars, end_time, saved, dequeued, skipped >>

\* the while condition is false: crawl() returns extracted_data
IndustrialFinish ==
    /\ variant = "industrial"
    /\ pc = "loop"
    /\ ~LoopCondition
    /\ pc' = "done"
    /\ UNCHANGED << siteVars, extractVars, guiVars, auditVars, checkVars, total_bytes,
                    summary, fetches_since_delay, url_queue, visited_urls, statVars,
                    robotsVars, current_url, callVars, end_time, saved, histVars >>

----------------------------------------------------------------------------
Next ==
    \/ SecurityCrawl
    \/ PoliteCrawl
    \/ PoliteDequeue
    \/ PoliteFinish
    \/ generate_security_report
    \/ RobotsSkip
    \/ BeginDownload
    \/ GetOk
    \/ GetRetry
    \/ GetGiveUp
    \/ SecurityChecks
    \/ SecurityChecksRaise
    \/ ParseError
    \/ WriteFails
    \/ PageSaved
    \/ NoImage
    \/ AssetExists
    \/ AssetDownload
    \/ AssetWritten
    \/ AssetWriteFails
    \/ SvgCrash
    \/ FinishPage
    \/ IndustrialDequeue
    \/ IndustrialPage
    \/ IndustrialGetFails
    \/ IndustrialExtractFails
    \/ IndustrialCallbackRaises
    \/ IndustrialLinksRaise
    \/ IndustrialFinish

Spec == Init /\ [][Next]_vars

----------------------------------------------------------------------------
(* CrawlerStats on its own: a run that records errors, then is summarised *)

\* the URLs the error records of such a run name
ErrorUrls == { Url(SeedHost, "/", ""), Url(SeedHost, "/a", "") }

\* a crawler before its run, with empty statistics
StatsInit ==
    /\ Init
    /\ variant = "polite"
    /\ site = "example"

\* self.stats.errors.append({'url': url, 'error': str(e)}), as the run does
\* for each failure, until the summary is made
RecordError ==
    /\ summary = << >>
    /\ Len(errors) < MaxErrors
    /\ \E url \in ErrorUrls : errors' = Append(errors, url)
    /\ UNCHANGED << siteVars, extractVars, guiVars, auditVars, checkVars, total_bytes,
                    summary, fetches_since_delay, pc, url_queue, visited_urls,
                    pages_crawled, progress_calls, urls_found, err_count, results_pages,
                    assets_downloaded, results_images, files, robotsVars, current_url,
                    callVars, end_time, saved, histVars >>

\* the sizes of the responses such a run adds up: 0.1875 MB, 0.5 MB and 1 MB
ResponseBytes == { 196608, 524288, 1048576 }

\* most bytes of a run explored: 1.5 MB
MaxTotalBytes == 1572864

\* self.stats.total_bytes += len(response.content), as the run does for each
\* asset it stores, until the summary is made
RecordBytes ==
    /\ summary = << >>
    /\ \E size \in ResponseBytes :
          /\ total_bytes + size <= MaxTotalBytes
          /\ total_bytes' = total_bytes + size
    /\ UNCHANGED << siteVars, extractVars, guiVars, auditVars, checkVars, summary,
                    fetches_since_delay, pc, url_queue, visited_urls, statVars,
                    robotsVars, current_url, callVars, end_time, saved, histVars >>

\* stats.to_dict() at the end of the run
ToDict ==
    /\ summary = << >>
    /\ summary' = << to_dict >>
    /\ UNCHANGED << siteVars, extractVars, guiVars, auditVars, checkVars, total_bytes,
                    fetches_since_delay, pc, url_queue, visited_urls, statVars,
                    robotsVars, current_url, callVars, end_time, saved, histVars >>

StatsNext ==
    \/ RecordError
    \/ RecordBytes
    \/ ToDict

StatsSpec == StatsInit /\ [][StatsNext]_vars

----------------------------------------------------------------------------
(* SecurityCrawler.process_page on its own: the security checks of the pages *)
(* of a run, each from the point where its response has been parsed          *)

\* the pages audited in a run; a run processes a URL once
AuditUrls == { Url(SeedHost, "/", ""), Url(SeedHost, "/a", "") }

\* the response headers check_security_headers looks for
SecurityHeaders ==
    { "Strict-Transport-Security", "X-Frame-Options", "Content-Security-Policy",
      "X-Content-Type-Options", "X-XSS-Protection", "Referrer-Policy",
      "Permissions-Policy", "Feature-Policy" }

\* the header sets of the responses explored: every combination of the four
\* headers behind the high and medium findings, without the other four, and
\* two responses that carry some of those
HeaderSets ==
    SUBSET { "Strict-Transport-Security", "X-Frame-Options",
             "Content-Security-Policy", "X-Content-Type-Options" }
    \cup { { "X-XSS-Protection", "Referrer-Policy", "Permissions-Policy" },
           SecurityHeaders \ { "Permissions-Policy" } }

\* CMS_PATTERNS, in the order of the dict
CMS_PATTERNS ==
    << [ cms_name |-> "WordPress", patterns |-> { "/wp-content/", "/wp-includes/", "/wp-admin/" } ],
       [ cms_name |-> "Drupal",    patterns |-> { "/sites/default/", "/modules/", "/themes/" } ],
       [ cms_name |-> "Joomla",    patterns |-> { "/administrator/", "/components/", "/templates/" } ],
       [ cms_name |-> "Magento",   patterns |-> { "/skin/", "/js/mage/", "/media/catalog/" } ] >>

\* the pages explored, as the set of CMS path patterns their HTML contains
HtmlSets ==
    { {}, { "/wp-content/" }, { "/modules/", "/wp-admin/" }, { "/skin/", "/templates/" } }

\* one entry of a severity list
Finding(type, url, recommendation) ==
    [ type |-> type, location |-> url, recommendation |-> recommendation ]

\* "if <condition>: list.append(finding)"
AppendIf(list, condition, finding) ==
    IF condition THEN Append(list, finding) ELSE list

\* mutant of check_security_headers: the CSP finding is made only when
\* X-Frame-Options is missing too
check_security_headers_csp_with_xfo(issues, headers, url) ==
    [ issues EXCEPT
        !["high"] = AppendIf(@, "Strict-Transport-Security" \notin headers,
            Finding("Missing HSTS Header", url,
                    "Add header: Strict-Transport-Security: max-age=31536000; includeSubDomains")),
        !["medium"] =
            AppendIf(
              AppendIf(
                AppendIf(@, "X-Frame-Options" \notin headers
                              /\ "Content-Security-Policy" \notin headers,
                    Finding("Missing Clickjacking Protection", url,
                            "Add header: X-Frame-Options: SAMEORIGIN or use CSP")),
                "X-Content-Type-Options" \notin headers,
                Finding("Missing X-Content-Type-Options", url,
                        "Add header: X-Content-Type-Options: nosniff")),
              "X-Frame-Options" \notin headers
                  /\ "Content-Security-Policy" \notin headers,
              Finding("Missing Content Security Policy", url,
                      "Implement a strict Content-Security-Policy")) ]

\* check_security_headers(response, url): the findings appended to the
\* severity lists, in the order of the function's tests
check_security_headers(issues, headers, url) ==
    [ issues EXCEPT
        !["high"] = AppendIf(@, "Strict-Transport-Security" \notin headers,
            Finding("Missing HSTS Header", url,
                    "Add header: Strict-Transport-Security: max-age=31536000; includeSubDomains")),
        !["medium"] =
            AppendIf(
              AppendIf(
                AppendIf(@, "X-Frame-Options" \notin headers
                              /\ "Content-Security-Policy" \notin headers,
                    Finding("Missing Clickjacking Protection", url,
                            "Add header: X-Frame-Options: SAMEORIGIN or use CSP")),
                "X-Content-Type-Options" \notin headers,
                Finding("Missing X-Content-Type-Options", url,
                        "Add header: X-Content-Type-Options: nosniff")),
              "Content-Security-Policy" \notin headers,
              Finding("Missing Content Security Policy", url,
                      "Implement a strict Content-Security-Policy")),
        !["low"] =
            AppendIf(
              AppendIf(@, "X-XSS-Protection" \notin headers,
                  Finding("Missing X-XSS-Protection", url,
                          "Add header: X-XSS-Protection: 1; mode=block")),
              "Referrer-Policy" \notin headers,
              Finding("Missing Referrer-Policy", url,
                      "Add header: Referrer-Policy: strict-origin-when-cross-origin")),
        !["info"] = AppendIf(@, "Permissions-Policy" \notin headers
                                  /\ "Feature-Policy" \notin headers,
            Finding("Missing Permissions-Policy", url,
                    "Consider adding Permissions-Policy header")) ]

\* what check_form_security, check_vulnerable_libraries, check_cookies and
\* check_sql_injection_vectors find on a page: nothing, a form on the HTTPS
\* page that posts to http://, or a cookie without its flags
OtherChecks == { "none", "form", "cookie" }

\* the findings of those checks appended
other_checks(issues, other, url) ==
    CASE other = "form" ->
             [ issues EXCEPT !["high"] = Append(@,
                 Finding("Mixed Content Form", url, "Use HTTPS for form action")) ]
      [] other = "cookie" ->
             [ issues EXCEPT !["medium"] = Append(@,
                 Finding("Insecure Cookie", url,
                         "Set Secure, HttpOnly, and SameSite attributes")) ]
      [] OTHER -> issues

\* the loops of detect_cms: the name of the first entry of CMS_PATTERNS, from
\* entry i on, one of whose patterns occurs in the page; None if there is none
RECURSIVE FirstCms(_, _)
FirstCms(i, html) ==
    IF i > Len(CMS_PATTERNS) THEN None
    ELSE IF \E pattern \in CMS_PATTERNS[i].patterns : pattern \in html
         THEN CMS_PATTERNS[i].cms_name
         ELSE FirstCms(i + 1, html)

\* mutant of DetectionDue: detect_cms is called for every page
DetectionAlways == TRUE

\* process_page: "if not self.cms_detected"
DetectionDue == cms_detected = None

\* a security crawler before its run
AuditInit ==
    /\ Init
    /\ variant = "security"
    /\ site = "example"
    /\ scheme = "https"

\* the pages of the run not yet processed
Unaudited == AuditUrls \ { audited[i].url : i \in DOMAIN audited }

\* the part of the state the security checks do not touch
auditFrame ==
    << siteVars, extractVars, guiVars, checkVars, summary, fetches_since_delay, total_bytes, pc,
       url_queue,
       visited_urls, statVars, robotsVars, current_url, callVars, end_time,
       saved, histVars >>

\* process_page, the checks of one page while no CMS is known:
\* check_security_headers, the form, library, cookie and URL checks, then
\* detect_cms, which sets cms_detected and records the finding on a match
AuditPageDetect ==
    /\ DetectionDue
    /\ \E url \in Unaudited, headers \in HeaderSets, other \in OtherChecks,
          html \in HtmlSets :
          LET checked == other_checks(
                            check_security_headers(security_issues, headers, url),
                            other, url)
              cms_name == FirstCms(1, html)
          IN  /\ audited' = Append(audited, [ url |-> url, headers |-> headers ])
              /\ detect_calls' = detect_calls + 1
              /\ last_html' = html
              /\ IF cms_name # None
                 THEN /\ cms_detected' = cms_name
                      /\ security_issues' =
                            [ checked EXCEPT !["info"] = Append(@,
                                Finding("CMS Detected", url, "Ensure CMS is up-to-date")) ]
                 ELSE /\ cms_detected' = cms_detected
                      /\ security_issues' = checked
    /\ UNCHANGED auditFrame

\* process_page, the checks of one page once a CMS is known: detect_cms is
\* not called
AuditPageCmsKnown ==
    /\ ~DetectionDue
    /\ \E url \in Unaudited, headers \in HeaderSets, other \in OtherChecks :
          /\ audited' = Append(audited, [ url |-> url, headers |-> headers ])
          /\ security_issues' =
                other_checks(check_security_headers(security_issues, headers, url),
                             other, url)
    /\ UNCHANGED << cms_detected, detect_calls, last_html >>
    /\ UNCHANGED auditFrame

\* process_page: a check after check_security_headers raises; the except
\* branch records the error, detect_cms is not reached
AuditPageRaises ==
    /\ \E url \in Unaudited, headers \in HeaderSets :
          /\ audited' = Append(audited, [ url |-> url, headers |-> headers ])
          /\ security_issues' = check_security_headers(security_issues, headers, url)
          /\ errors' = Append(errors, url)
    /\ UNCHANGED << cms_detected, detect_calls, last_html >>
    /\ UNCHANGED << siteVars, extractVars, guiVars, checkVars, summary,
                    fetches_since_delay, total_bytes, pc, url_queue, visited_urls,
                    pages_crawled, progress_calls, urls_found, err_count, results_pages,
                    assets_downloaded, results_images, files, robotsVars, current_url,
                    callVars, end_time, saved, histVars >>

AuditNext ==
    \/ AuditPageDetect
    \/ AuditPageCmsKnown
    \/ AuditPageRaises

AuditSpec == AuditInit /\ [][AuditNext]_vars

----------------------------------------------------------------------------
(* IndustrialCrawlerGUI: the GUI thread (start_crawl, stop_loop) and the     *)
(* worker thread (_crawl_thread) it starts, which runs IndustrialCrawler.crawl *)
(* for the one URL entered, once or in loop mode.  The two threads interleave *)
(* between statements.                                                         *)

\* the fields of the IndustrialCrawler object of the running cycle
crawlerState ==
    << pc, url_queue, visited_urls, pages_crawled, progress_calls, err_count,
       results_pages, current_url, dequeued, enqueued, fetched, page_ok,
       fetches_since_delay >>

\* what neither the GUI nor an IndustrialCrawler touches
guiFrame ==
    << siteVars, extractVars, auditVars, checkVars, total_bytes, summary, urls_found, errors,
       assets_downloaded, results_images, files, robotsVars, callVars, end_time,
       saved, skipped, retryVars >>

\* the GUI before any extraction: IndustrialCrawlerGUI.__init__
GuiInit ==
    /\ Init
    /\ variant = "industrial"
    /\ site = "example"

\* start_crawl while is_crawling: the warning box, nothing else
StartCrawlRefused ==
    /\ is_crawling
    /\ UNCHANGED << guiVars, crawlerState, guiFrame >>

\* start_crawl: is_crawling = True, loop_active = the loop checkbox, the
\* worker thread is started
StartCrawl ==
    /\ ~is_crawling
    /\ threads < MaxThreads
    /\ is_crawling' = TRUE
    /\ \E loop_enabled \in BOOLEAN : loop_active' = loop_enabled
    /\ threads' = threads + 1
    /\ worker_pc' = "cycle"
    /\ cycle_count' = 0
    /\ stop_called' = FALSE
    /\ UNCHANGED << exiting, crawlerState, guiFrame >>

\* stop_loop: loop_active = False
StopLoop ==
    /\ loop_active' = FALSE
    /\ stop_called' = IF is_crawling THEN TRUE ELSE stop_called
    /\ UNCHANGED << is_crawling, worker_pc, exiting, cycle_count, threads, crawlerState,
                    guiFrame >>

\* IndustrialCrawler(url, ...) as _crawl_thread constructs it for a cycle
NewCrawler ==
    /\ pc' = "loop"
    /\ url_queue' = << start_url >>
    /\ enqueued' = << start_url >>
    /\ visited_urls' = {}
    /\ pages_crawled' = 0
    /\ progress_calls' = 0
    /\ err_count' = 0
    /\ results_pages' = << >>
    /\ current_url' = NoUrl
    /\ dequeued' = << >>
    /\ fetched' = {}
    /\ page_ok' = 0
    /\ fetches_since_delay' = 0

\* _crawl_thread, top of "while True" up to the call of crawler.crawl():
\* cycle_count += 1, "if not self.is_crawling: break" in the loop over the
\* URLs, then the crawler of the cycle is constructed
WorkerCycle ==
    /\ worker_pc = "cycle"
    /\ cycle_count < MaxCycles
    /\ cycle_count' = cycle_count + 1
    /\ IF is_crawling
       THEN /\ NewCrawler
            /\ worker_pc' = "crawl"
       ELSE /\ worker_pc' = "cycle_end"
            /\ UNCHANGED crawlerState
    /\ UNCHANGED << is_crawling, loop_active, exiting, threads, stop_called, guiFrame >>

\* one step of crawler.crawl() in the worker thread
WorkerCrawl ==
    /\ worker_pc = "crawl"
    /\ \/ IndustrialDequeue
       \/ IndustrialPage
       \/ IndustrialGetFails
       \/ IndustrialExtractFails
       \/ IndustrialCallbackRaises
       \/ IndustrialLinksRaise
       \/ IndustrialFinish

\* crawler.crawl() has returned: batch_data.extend(site_data), the batch is
\* logged
WorkerCrawlReturned ==
    /\ worker_pc = "crawl"
    /\ pc = "done"
    /\ worker_pc' = "cycle_end"
    /\ UNCHANGED << is_crawling, loop_active, exiting, cycle_count, threads, stop_called,
                    crawlerState, guiFrame >>

\* end of a cycle: auto-export, update_stats, then
\* "if not self.loop_active: break", else the interval wait begins
WorkerCycleEnd ==
    /\ worker_pc = "cycle_end"
    /\ worker_pc' = IF ~loop_active THEN "cleanup" ELSE "wait"
    /\ UNCHANGED << is_crawling, loop_active, exiting, cycle_count, threads, stop_called,
                    crawlerState, guiFrame >>

\* a statement of the cycle raises: the except branch breaks when loop_active
\* is false, else "while True" starts the next cycle at once
WorkerCycleError ==
    /\ worker_pc = "cycle_end"
    /\ worker_pc' = IF ~loop_active THEN "cleanup" ELSE "cycle"
    /\ UNCHANGED << is_crawling, loop_active, exiting, cycle_count, threads, stop_called,
                    crawlerState, guiFrame >>

\* the interval wait: "for _ in range(interval): if not self.loop_active:
\* break; time.sleep(1)" is left by the break or when the interval is over
WorkerWait ==
    /\ worker_pc = "wait"
    /\ worker_pc' = "after_wait"
    /\ UNCHANGED << is_crawling, loop_active, exiting, cycle_count, threads, stop_called,
                    crawlerState, guiFrame >>

\* after the wait: "if not self.loop_active: break", else back to the top of
\* "while True"
WorkerAfterWait ==
    /\ worker_pc = "after_wait"
    /\ worker_pc' = IF ~loop_active THEN "cleanup" ELSE "cycle"
    /\ UNCHANGED << is_crawling, loop_active, exiting, cycle_count, threads, stop_called,
                    crawlerState, guiFrame >>

\* cleanup, first statement: self.is_crawling = False.  From here on
\* start_crawl is accepted, while this thread has one assignment left; at most
\* one thread at a time is followed through that last assignment
WorkerCleanup ==
    /\ worker_pc = "cleanup"
    /\ ~exiting
    /\ is_crawling' = FALSE
    /\ worker_pc' = "none"
    /\ exiting' = TRUE
    /\ UNCHANGED << loop_active, cycle_count, threads, stop_called, crawlerState,
                    guiFrame >>

\* cleanup, second statement: self.loop_active = False; the thread ends
WorkerExit ==
    /\ exiting
    /\ loop_active' = FALSE
    /\ exiting' = FALSE
    /\ UNCHANGED << is_crawling, worker_pc, cycle_count, threads, stop_called, crawlerState,
                    guiFrame >>

GuiNext ==
    \/ StartCrawlRefused
    \/ StartCrawl
    \/ StopLoop
    \/ WorkerCycle
    \/ WorkerCrawl
    \/ WorkerCrawlReturned
    \/ WorkerCycleEnd
    \/ WorkerCycleError
    \/ WorkerWait
    \/ WorkerAfterWait
    \/ WorkerCleanup
    \/ WorkerExit

GuiSpec == GuiInit /\ [][GuiNext]_vars

----------------------------------------------------------------------------
(* DataExtractor.extract_all on its own: one document is parsed once and   *)
(* the one tree is handed to the extractors in the order of the dictionary *)
(* literal.  A tree is the list of its elements in document order, each    *)
(* with the element that encloses it.                                       *)

\* most elements of a document explored
MaxElements == 2

\* the elements that may enclose an anchor
Enclosing == { "body", "nav", "header", "footer" }

\* the hrefs of the anchors explored
AnchorHrefs == { HrefA, HrefOther, HrefMailto, HrefTop }

\* the string of a <script type="application/ld+json">: two JSON values
\* and one text that is not JSON
JsonLdTexts == { "{\"n\": 1}", "{\"n\": 2}", "{\"n\": " }

Element(t, w, h, ty, s) == [tag |-> t, within |-> w, href |-> h, type |-> ty, string |-> s]

Elements ==
    { Element("a", w, h, "", "") : w \in Enclosing, h \in AnchorHrefs }
        \cup { Element("script", "body", HrefTop, "application/ld+json", s) : s \in JsonLdTexts }
        \cup { Element("script", "body", HrefTop, "text/javascript", "var x;"),
               Element("p", "body", HrefTop, "", "text") }

Documents == SeqsUpTo(Elements, MaxElements)

\* BeautifulSoup(html, 'html.parser'): the documents explored are written
\* as the element lists they parse to
BeautifulSoup(doc) == doc

\* json.loads: the value of a JSON text, "raises" for any other text
json_loads(s) ==
    CASE s = "{\"n\": 1}" -> [raises |-> FALSE, n |-> 1]
      [] s = "{\"n\": 2}" -> [raises |-> FALSE, n |-> 2]
      [] OTHER            -> [raises |-> TRUE, n |-> 0]

\* "for elem in soup(['script', 'style', 'nav', 'footer', 'header']):
\* elem.decompose()": the tree that is left, the elements inside a removed
\* element removed with it
Decomposed == { "script", "style", "nav", "footer", "header" }

decompose(soup) ==
    SelectSeq(soup, LAMBDA e : e.tag \notin Decomposed /\ e.within \notin Decomposed)

\* extract_text: the paragraphs of the tree after the removal
extract_text(soup) ==
    LET paragraphs == SelectSeq(decompose(soup), LAMBDA e : e.tag = "p")
    IN  [ paragraphs |-> [ i \in DOMAIN paragraphs |-> paragraphs[i].string ],
          word_count |-> Len(paragraphs) ]

\* href.startswith(('javascript:', 'mailto:', 'tel:', '#'))
HrefSkipped(href) == href.kind \in { "mailto", "frag" }

\* extract_links: the anchors of the tree, joined to the page URL, internal
\* when on the extractor's domain
extract_links(soup, url) ==
    LET anchors == SelectSeq(soup, LAMBDA e : e.tag = "a" /\ ~HrefSkipped(e.href))
        joined  == [ i \in DOMAIN anchors |-> urljoin(url, anchors[i].href) ]
    IN  [ internal |-> SelectSeq(joined, LAMBDA u : u.host = SeedHost),
          external |-> SelectSeq(joined, LAMBDA u : u.host # SeedHost) ]

\* extract_json_ld: json.loads of every <script type="application/ld+json">
\* of the tree, a block that raises passed over
extract_json_ld(soup) ==
    LET blocks == SelectSeq(soup, LAMBDA e : e.tag = "script" /\ e.type = "application/ld+json")
        loaded == [ i \in DOMAIN blocks |-> json_loads(blocks[i].string) ]
        valid  == SelectSeq(loaded, LAMBDA v : ~v.raises)
    IN  [ i \in DOMAIN valid |-> valid[i].n ]

\* extract_all: 'text' is evaluated before 'links' and 'structured_data',
\* and extract_text removes elements from the one tree all of them read
extract_all(doc, url) ==
    LET soup == BeautifulSoup(doc)
    IN  [ url             |-> url,
          text            |-> extract_text(soup),
          links           |-> extract_links(decompose(soup), url),
          structured_data |-> extract_json_ld(decompose(soup)) ]

\* an extractor for the example site, before its first page
ExtractInit ==
    /\ Init
    /\ variant = "industrial"
    /\ site = "example"

\* self.extractor.extract_all(response.text, url) for the first page of the site
ExtractAll ==
    /\ extracted = << >>
    /\ \E doc \in Documents :
          /\ page_html' = doc
          /\ extracted' = << extract_all(doc, start_url) >>
    /\ UNCHANGED << siteVars, guiVars, auditVars, checkVars, total_bytes, summary,
                    fetches_since_delay, pc, url_queue, visited_urls, statVars,
                    robotsVars, current_url, callVars, end_time, saved, histVars >>

ExtractNext == ExtractAll

ExtractSpec == ExtractInit /\ [][ExtractNext]_vars

----------------------------------------------------------------------------
(* Properties *)

\* number of occurrences of x in the list s
Count(s, x) == Cardinality({ i \in DOMAIN s : s[i] = x })

\* the crawl loop is over: left normally, or by an exception passing through it
LoopEnded == pc \in { "report", "done", "crashed" }

\* C1: in every state pages_crawled <= max_pages, and once the crawl loop has
\* ended pages_crawled equals max_pages unless the queue is empty
C1_PageBudget ==
    /\ pages_crawled <= max_pages
    /\ LoopEnded => (pages_crawled = max_pages \/ url_queue = << >>)

\* C2: no two URLs dequeued and processed in one run are equal once their
\* fragments are stripped
C2_NoNormalizedUrlTwice ==
    \A i, j \in DOMAIN dequeued :
        i # j => StripFragment(dequeued[i]) # StripFragment(dequeued[j])

RobotsDisallows(url) == robots_parser.last_checked /\ url.path \in site_rules

\* C4: no GET is issued for a URL robots.txt disallows, and a URL that was
\* skipped is never appended to the queue again
C4_DisallowedNeverFetched ==
    /\ \A url \in fetched : ~RobotsDisallows(url)
    /\ \A url \in skipped : Count(enqueued, url) = 1

\* the URLs can_fetch may be asked about
KnownUrls ==
    { Url(SeedHost, p, f) : p \in { "/", "/a", "/i.png" }, f \in { "", "top", "x" } }

\* C5: after a failed load of robots.txt every can_fetch(url) is true and no
\* page is skipped
C5_RobotsFailOpen ==
    robots_loaded = "no" =>
        /\ \A url \in KnownUrls : can_fetch(url)
        /\ skipped = {}

\* the handling of the dequeued page url is over
PageHandled(url) ==
    /\ \E i \in DOMAIN dequeued : dequeued[i] = url
    /\ url # current_url \/ pc \in { "loop", "report", "done", "crashed" }

\* C6: a page whose GET failed twice and then succeeded has exactly one page
\* record and no error record; a page whose GET failed on all attempts has
\* exactly one error record and no page record
C6_RetryOutcome ==
    \A url \in retry_ok \cup retry_failed :
        PageHandled(url) =>
            /\ url \in retry_ok =>
                  Count(results_pages, url) = 1 /\ Count(errors, url) = 0
            /\ url \in retry_failed =>
                  Count(errors, url) = 1 /\ Count(results_pages, url) = 0

\* C7: one download_with_retry call issues at most MAX_RETRIES GETs, none
\* after a GET that succeeded, sleeps once between two consecutive GETs and
\* not after the last one, and after the last failed GET it has returned to
\* its caller with the error recorded (the run has not been aborted)
C7_RetryPolicy ==
    /\ Len(call_log) <= MAX_RETRIES
    /\ \A i \in 1 .. Len(call_log) - 1 : call_log[i] = FALSE
    /\ pc = "get" => call_sleeps = Len(call_log)
    /\ pc # "get" /\ call_log # << >> => call_sleeps = Len(call_log) - 1
    /\ Len(call_log) = MAX_RETRIES /\ call_log[MAX_RETRIES] = FALSE =>
          /\ pc \in { "loop", "svg" }
          /\ errors # << >>
          /\ errors[Len(errors)] = target

\* a page download that failed on all attempts and returned to the loop
C7_Witness ==
    /\ call_log = << FALSE, FALSE, FALSE >>
    /\ owner = "page"
    /\ call_sleeps = 2
    /\ pc = "loop"

\* C8: no error raised while a page is handled ends the crawl
C8_NoPageErrorEndsCrawl == pc # "crashed"

\* C9: in a PoliteCrawler / SecurityCrawler run the summary is saved at most
\* once, together with end_time; while no page was fetched successfully there
\* is no page record and the run is not aborted, and it can stop only in
\* "done" with end_time stamped and the summary saved exactly once
C9_EmptyRunCompletes ==
    variant # "industrial" =>
        /\ saved <= 1
        /\ end_time <=> saved = 1
        /\ page_ok = 0 =>
              /\ results_pages = << >>
              /\ pc # "crashed"
              /\ ENABLED Next \/ (pc = "done" /\ end_time /\ saved = 1)

\* a finished polite run that dequeued a URL and fetched no page
C9_Witness ==
    /\ variant = "polite"
    /\ pc = "done"
    /\ dequeued # << >>
    /\ page_ok = 0
    /\ saved = 1

\* C10: every URL ever appended to the queue has the seed's host; on the
\* example site (seed https://example.test/, budget 2, page 1 linking to /a
\* and https://other.test/), once page 1 is processed exactly /a was enqueued
\* after the seed and urls_found is 1, and the run ends with 2 pages crawled
\* (for IndustrialCrawler: in runs where nothing raised after a page was
\* recorded, which would cut the link loop short)
C10_SameDomain ==
    /\ \A i \in DOMAIN enqueued : netloc(enqueued[i]) = netloc(start_url)
    /\ /\ site = "example"
       /\ results_pages # << >>
       /\ variant = "industrial" => pages_crawled + err_count = Cardinality(fetched)
       =>
          /\ enqueued = << start_url, Url(SeedHost, "/a", "") >>
          /\ variant # "industrial" => urls_found = 1
          /\ pc = "done" /\ (variant = "industrial" => Len(results_pages) = 2) =>
                pages_crawled = 2

\* a finished polite run on the example site with both pages recorded
C10_Witness ==
    /\ site = "example"
    /\ variant = "polite"
    /\ pc = "done"
    /\ Len(results_pages) = 2
    /\ pages_crawled = 2

\* C11: pages_crawled is incremented only for a page that was fetched and
\* processed successfully: it never exceeds the number of page records, and
\* when the run has ended it equals that number
C11_PagesCrawledCountsSuccesses ==
    /\ pages_crawled <= Len(results_pages)
    /\ pc = "done" => pages_crawled = Len(results_pages)

\* C12: in a PoliteCrawler / SecurityCrawler run that has ended, urls_found
\* equals the number of URLs appended to the queue after the seed
C12_UrlsFoundCountsEnqueued ==
    variant # "industrial" /\ pc = "done" => urls_found = Len(enqueued) - 1

\* C13: whenever no page is being handled, the progress observer has been
\* called exactly once for every URL dequeued and handled so far, whether its
\* fetch succeeded or failed
C13_ProgressOncePerHandledUrl ==
    pc \in { "loop", "report", "done" } => progress_calls = Len(dequeued)

\* C14: the rate-limit delay precedes every page fetch of a run but the
\* first: no two page fetches begin without a sleep of the delay in between
C14_DelayBetweenPageFetches == fetches_since_delay <= 1

\* C15: the summary of a run that recorded n errors reports errors_count = n
\* and lists exactly the first min(n, 10) errors, in the order recorded
C15_SummaryErrors ==
    summary # << >> =>
        LET listed == summary[1].errors
            n      == Len(errors)
        IN  /\ summary[1].errors_count = n
            /\ Len(listed) = IF n < 10 THEN n ELSE 10
            /\ \A i \in DOMAIN listed : listed[i] = errors[i]

\* the summary of a run that recorded eleven errors, not all for one URL,
\* counts eleven and lists ten
C15_Witness ==
    /\ summary # << >>
    /\ Len(errors) = 11
    /\ errors[1] # errors[2]
    /\ summary[1].errors_count = 11
    /\ Len(summary[1].errors) = 10

\* C16: a download_asset call that finds its target file on disk issues no
\* GET and leaves assets_downloaded and total_bytes unchanged; an asset and
\* its bytes are counted only by the download that creates its file
C16_AssetDownloadIdempotent ==
    [][ /\ AssetExists =>
              /\ fetched' = fetched
              /\ pc' # "get"
              /\ assets_downloaded' = assets_downloaded
              /\ total_bytes' = total_bytes
        /\ assets_downloaded' # assets_downloaded \/ total_bytes' # total_bytes =>
              /\ Basename(target) \notin files
              /\ Basename(target) \in files'
              /\ assets_downloaded' = assets_downloaded + 1
      ]_vars

\* two pages of a run stored the same image: it was downloaded for the first
\* and found on disk for the second, and is counted once
C16_Witness ==
    /\ Len(results_images) = 2
    /\ results_images[1] = results_images[2]
    /\ assets_downloaded = 1
    /\ Cardinality(files) = 1
    /\ total_bytes \in AssetSizes

\* the positions of the findings of one type recorded for url under severity
FindingsOf(severity, type, url) ==
    { i \in DOMAIN security_issues[severity] :
        /\ security_issues[severity][i].type = type
        /\ security_issues[severity][i].location = url }

\* exactly one finding of the type is recorded for url, under the given
\* severity and no other, and its recommendation is not empty
OneFinding(severity, type, url) ==
    /\ Cardinality(FindingsOf(severity, type, url)) = 1
    /\ \A i \in FindingsOf(severity, type, url) :
          security_issues[severity][i].recommendation # ""
    /\ \A other \in Severities \ { severity } : FindingsOf(other, type, url) = {}

\* C17: for every page whose response was checked and lacks the HSTS, CSP
\* and X-Content-Type-Options headers, exactly one high finding for the
\* missing HSTS header, one medium finding for the missing CSP and one medium
\* finding for the missing X-Content-Type-Options header are recorded for that
\* page, each with a recommendation
C17_MissingHeaderFindings ==
    \A i \in DOMAIN audited :
        LET url     == audited[i].url
            headers == audited[i].headers
        IN  /\ "Strict-Transport-Security" \notin headers
            /\ "Content-Security-Policy" \notin headers
            /\ "X-Content-Type-Options" \notin headers
            => /\ OneFinding("high", "Missing HSTS Header", url)
               /\ OneFinding("medium", "Missing Content Security Policy", url)
               /\ OneFinding("medium", "Missing X-Content-Type-Options", url)

\* both pages of a run were checked; the second lacks the three headers but
\* carries X-Frame-Options and has a form finding, so its three header
\* findings stand among others
C17_Witness ==
    /\ Len(audited) = 2
    /\ audited[2].headers = { "X-Frame-Options" }
    /\ FindingsOf("high", "Mixed Content Form", audited[2].url) # {}
    /\ Cardinality(FindingsOf("high", "Missing HSTS Header", audited[2].url)) = 1
    /\ Len(security_issues["high"]) >= 3

\* the entries of CMS_PATTERNS with a pattern in the page
MatchingCms(html) ==
    { i \in DOMAIN CMS_PATTERNS : CMS_PATTERNS[i].patterns \cap html # {} }

\* the 'CMS Detected' findings of the run, over all severities
CmsFindings ==
    UNION { { << severity, i >> : i \in { j \in DOMAIN security_issues[severity] :
                  security_issues[severity][j].type = "CMS Detected" } } :
            severity \in Severities }

\* C18: once cms_detected is set it never changes and detect_cms is not called
\* again; the CMS detected is the first entry of CMS_PATTERNS that matches the
\* page on which it was detected; at most one 'CMS Detected' finding exists
C18_CmsDetectedOnce ==
    [][ /\ cms_detected # None =>
              /\ cms_detected' = cms_detected
              /\ detect_calls' = detect_calls
        /\ cms_detected' # None =>
              /\ MatchingCms(last_html') # {}
              /\ \A i \in MatchingCms(last_html') :
                    \/ CMS_PATTERNS[i].cms_name = cms_detected'
                    \/ \E j \in MatchingCms(last_html') :
                          j < i /\ CMS_PATTERNS[j].cms_name = cms_detected'
        /\ Cardinality(CmsFindings') <= 1
      ]_vars

\* a page matching a Drupal and a WordPress pattern set cms_detected to
\* WordPress, and a second page was processed without another detect_cms call
C18_Witness ==
    /\ cms_detected = "WordPress"
    /\ last_html = { "/modules/", "/wp-admin/" }
    /\ Len(audited) = 2
    /\ detect_calls = 1
    /\ Cardinality(CmsFindings) = 1

\* C19: in a security run, from the moment crawl() has passed its pre-crawl
\* checks, check_sensitive_files has run exactly once and
\* check_ssl_certificate exactly once for an https seed and never for an
\* http seed, in every later state: before any page is dequeued, during page
\* processing and after it; the security report is generated at most once,
\* and only after the crawl loop has ended and the base crawl has returned
C19_PreCrawlChecksOnce ==
    variant = "security" =>
        /\ pc = "idle" => ssl_checks = 0 /\ sensitive_checks = 0 /\ dequeued = << >>
        /\ pc # "idle" =>
              /\ sensitive_checks = 1
              /\ ssl_checks = IF scheme = "https" THEN 1 ELSE 0
        /\ reports <= 1
        /\ reports = 1 => pc = "done" /\ end_time /\ ~LoopCondition

\* a finished security run from an http seed that processed a page: no
\* certificate check, one probe of the sensitive files, one report
C19_Witness ==
    /\ variant = "security"
    /\ scheme = "http"
    /\ pc = "done"
    /\ results_pages # << >>
    /\ ssl_checks = 0
    /\ sensitive_checks = 1
    /\ reports = 1

\* C20: robots.txt is read exactly once per crawl run, before the first page
\* is dequeued, and never again
C20_RobotsReadOnce ==
    variant # "industrial" =>
        /\ robots_reads <= 1
        /\ dequeued # << >> => robots_reads = 1

\* C21: no step of a download_with_retry call, the failing last one included,
\* changes the error list, the counters the call's caller does not advance in
\* that step, the queue or the visited set
C21_FetcherLeavesEngineState ==
    [][ pc = "get" =>
            /\ errors' = errors
            /\ err_count' = err_count
            /\ urls_found' = urls_found
            /\ assets_downloaded' = assets_downloaded
            /\ total_bytes' = total_bytes
            /\ url_queue' = url_queue
            /\ visited_urls' = visited_urls
      ]_vars

\* C22: once a stop has been requested during a run, the run issues no
\* further network request and dequeues no further URL
C22_NoRequestAfterStop ==
    [][ stop_called =>
            /\ fetched' \subseteq fetched
            /\ Len(dequeued') <= Len(dequeued)
      ]_vars

\* C30: once stop_loop was called during a worker thread's cycle or interval
\* wait, that thread starts no new cycle; while is_crawling is true no worker
\* thread is started; and when no worker thread is left, is_crawling and
\* loop_active are both false
C30_StopEndsLoopMode ==
    [][ /\ stop_called /\ cycle_count >= 1 => cycle_count' <= cycle_count
        /\ is_crawling => threads' = threads
        /\ worker_pc' = "none" /\ ~exiting' => ~is_crawling' /\ ~loop_active'
      ]_vars

\* the parsed values of the valid JSON-LD blocks of a document, in document order
ValidJsonLd(doc) ==
    LET valid == SelectSeq(doc, LAMBDA e : /\ e.tag = "script"
                                           /\ e.type = "application/ld+json"
                                           /\ ~json_loads(e.string).raises)
    IN  [ i \in DOMAIN valid |-> json_loads(valid[i].string).n ]

\* C23: the structured_data of the dictionary extract_all returns holds the
\* parsed value of every valid application/ld+json block of the document, in
\* document order, invalid blocks passed over
C23_StructuredDataComplete ==
    extracted # << >> => extracted[1].structured_data = ValidJsonLd(page_html)

\* the URLs of the two link lists of an extraction
LinkUrls(links) ==
    { links.internal[i] : i \in DOMAIN links.internal }
        \cup { links.external[i] : i \in DOMAIN links.external }

\* C29: extract_text leaves the parsed document as it was for the extractors
\* after it: the link lists hold every anchor of the document whose href is
\* not javascript:, mailto:, tel: or fragment-only, the anchors inside nav,
\* header and footer included
C29_LinksIncludeEveryAnchor ==
    extracted # << >> =>
        \A i \in DOMAIN page_html :
            page_html[i].tag = "a" /\ ~HrefSkipped(page_html[i].href)
                => urljoin(extracted[1].url, page_html[i].href) \in LinkUrls(extracted[1].links)

\* C24: the summary's total_mb is total_bytes / 1048576 rounded to two
\* decimals (a nearest hundredth): 1572864 bytes give 1.5, 0 bytes give 0
C24_TotalMbRounded ==
    summary # << >> =>
        LET d == summary[1]
            off == d.total_mb * 1048576 - d.total_bytes * 100
        IN  /\ 2 * (IF off < 0 THEN -off ELSE off) <= 1048576
            /\ d.total_bytes = 1572864 => d.total_mb = 150
            /\ d.total_bytes = 0 => d.total_mb = 0

\* a summary of a run of 1572864 bytes, with 1.5 as its total_mb
C24_Witness ==
    /\ summary # << >>
    /\ summary[1].total_bytes = 1572864
    /\ summary[1].total_mb = 150

\* the entries the crawl loop has taken from the queue: all that were
\* appended except those still queued
Popped == SubSeq(enqueued, 1, Len(enqueued) - Len(url_queue))

\* a list without the repetitions of its entries
RECURSIVE FirstOccurrences(_)
FirstOccurrences(s) ==
    IF s = << >> THEN << >>
    ELSE LET front == FirstOccurrences(SubSeq(s, 1, Len(s) - 1))
         IN  IF \E i \in DOMAIN front : front[i] = s[Len(s)]
             THEN front ELSE Append(front, s[Len(s)])

\* C25: the frontier is first-in first-out: the queue is the tail of the
\* list of appended URLs, and the URLs dequeued are its front in the order
\* of their appending (IndustrialCrawler drops repetitions on dequeuing)
C25_FrontierFifo ==
    /\ Len(url_queue) <= Len(enqueued)
    /\ url_queue = SubSeq(enqueued, Len(Popped) + 1, Len(enqueued))
    /\ dequeued = IF variant = "industrial" THEN FirstOccurrences(Popped) ELSE Popped

\* two different URLs were appended one after the other, the first of them
\* has been dequeued and the second is still queued
C25_Witness ==
    /\ Len(dequeued) >= 2
    /\ url_queue # << >>
    /\ Head(url_queue) # dequeued[Len(dequeued)]
    /\ \E i \in 1 .. Len(enqueued) - 1 :
          enqueued[i] = dequeued[Len(dequeued)] /\ enqueued[i + 1] = Head(url_queue)

\* the steps of PoliteCrawler.crawl and of IndustrialCrawler.crawl
CrawlNext ==
    \/ PoliteCrawl
    \/ PoliteDequeue
    \/ PoliteFinish
    \/ RobotsSkip
    \/ BeginDownload
    \/ GetOk
    \/ GetRetry
    \/ GetGiveUp
    \/ ParseError
    \/ WriteFails
    \/ PageSaved
    \/ NoImage
    \/ AssetExists
    \/ AssetDownload
    \/ AssetWritten
    \/ AssetWriteFails
    \/ SvgCrash
    \/ FinishPage
    \/ IndustrialDequeue
    \/ IndustrialPage
    \/ IndustrialGetFails
    \/ IndustrialExtractFails
    \/ IndustrialCallbackRaises
    \/ IndustrialLinksRaise
    \/ IndustrialFinish

\* a crawl of one of the two, every step of which is taken in the end:
\* nothing in a crawl loop waits for anything but its own sleeps and the
\* timeouts of its requests
CrawlInit ==
    /\ Init
    /\ variant \in { "polite", "industrial" }

CrawlLiveSpec == CrawlInit /\ [][CrawlNext]_vars /\ WF_vars(CrawlNext)

\* C26: the crawl loop ends for every site, page budget and failure pattern:
\* PoliteCrawler.crawl runs at most max_pages iterations, and every crawl
\* reaches the end of its loop, failing fetches and pages that link to each
\* other included
C26_CrawlTerminates ==
    /\ [](variant # "industrial" => Len(dequeued) <= max_pages)
    /\ <>(pc \in { "done", "crashed" })

\* an IndustrialCrawler whose every fetch failed has returned from crawl, and
\* so has a PoliteCrawler that used up its page budget on a site whose pages
\* link to each other
C26_Witness ==
    /\ pc = "done"
    /\ \/ variant = "industrial" /\ err_count >= 1 /\ pages_crawled = 0
       \/ variant = "polite" /\ max_pages >= 1 /\ Len(dequeued) = max_pages

\* C27: a page URL taken from the queue is fetched successfully at most
\* once, by the one download_with_retry call made for it, in the base
\* crawler and in the security crawler: there are never more successful
\* page fetches than dequeued URLs
C27_PageFetchedOnce == page_ok <= Len(dequeued)

\* C28: between the iterations of IndustrialCrawler.crawl every attempted URL
\* has added one to exactly one of stats['pages'] and stats['errors']:
\* pages + errors = |visited_urls| and len(extracted_data) = pages, also
\* when the progress callback or the link discovery raised after the page
\* was recorded
C28_PagesPlusErrorsIsVisited ==
    variant = "industrial" /\ pc \in { "loop", "done" } =>
        /\ pages_crawled + err_count = Cardinality(visited_urls)
        /\ Len(results_pages) = pages_crawled

====
